---- MODULE Spec2Model ----
(***************************************************************************)
(* A model of the inference adapter backend/src/models/run_model.py (one   *)
(* invocation of main: argument parsing, load_model, preprocess_input,     *)
(* run_inference, postprocess_output, the JSON envelope and the exit code) *)
(* and of the dependency check backend/src/models/import_check.py.         *)
(*                                                                         *)
(* Python values are modelled as records of one shape per kind of value,   *)
(* exceptions as the sequence of the parts of their message (a wrapper     *)
(* prepends its prefix), and every call into a library or into the loaded  *)
(* model as a nondeterministic choice among the outcomes it can have.      *)
(***************************************************************************)
EXTENDS Integers, Sequences, FiniteSets, TLC

\* Longest score vector a model returns and longest `labels` list of a config.
MaxLen == 2

----------------------------------------------------------------------------
(* Floating-point scores.  k is "fin" (value x), "nan", or "inf" (sign x). *)

Fin(x) == [k |-> "fin", x |-> x]
NaN == [k |-> "nan", x |-> 0]
PosInf == [k |-> "inf", x |-> 1]
NegInf == [k |-> "inf", x |-> -1]

Scores == {Fin(20), Fin(80), NaN, PosInf, NegInf}

IsFinite(s) == s.k = "fin"

\* IEEE a <= b: false as soon as one side is NaN.
LeqScore(a, b) ==
    /\ a.k # "nan"
    /\ b.k # "nan"
    /\ \/ a.k = "inf" /\ a.x < 0
       \/ b.k = "inf" /\ b.x > 0
       \/ a.k = "fin" /\ b.k = "fin" /\ a.x <= b.x

\* Sequences over S of length 0..n.
SeqsUpTo(S, n) == UNION {[1..m -> S] : m \in 0..n}

----------------------------------------------------------------------------
(* Raw outputs of a model: a Python value [t, rows].                       *)
(*   "list"      a flat list of numbers, rows = <<the list>>               *)
(*   "batch"     a list of lists of numbers, rows = the lists              *)
(*   "number"    a Python int or float, rows = <<<<it>>>>                  *)
(*   "npnumber"  a numpy scalar (np.int64, np.float32), rows = <<<<it>>>>  *)
(*   "none"      None                                                      *)

PyList(v) == [t |-> "list", rows |-> <<v>>]
PyBatch(rs) == [t |-> "batch", rows |-> rs]
PyNumber(s) == [t |-> "number", rows |-> << <<s>> >>]
NpNumber(s) == [t |-> "npnumber", rows |-> << <<s>> >>]
PyNone == [t |-> "none", rows |-> << >>]

Vectors == SeqsUpTo(Scores, MaxLen)

\* What ndarray.tolist() can give: a scalar (0-d), a list, a list of lists.
ListOutputs ==
    {PyList(v) : v \in Vectors}
        \cup {PyBatch(<<v>>) : v \in Vectors}
        \cup {PyBatch(<<v, v>>) : v \in Vectors \ {<< >>}}
        \cup {PyNumber(s) : s \in Scores}

\* What a duck-typed predict can give: the above, a numpy scalar, None.
AnyOutputs == ListOutputs \cup {NpNumber(s) : s \in Scores} \cup {PyNone}

\* len(output) of a list-like output.
PyLen(o) == IF o.t = "list" THEN Len(o.rows[1]) ELSE Len(o.rows)

\* output[0] of a non-empty list-like output.
PyFirst(o) ==
    IF o.t = "list" THEN PyNumber(o.rows[1][1]) ELSE PyList(o.rows[1])

RECURSIVE Flatten(_)
Flatten(rs) == IF rs = << >> THEN << >> ELSE Head(rs) \o Flatten(Tail(rs))

\* numpy's argmax scan over a non-empty vector: the first NaN if there is
\* one, else the first greatest element.  i is the next position to look at,
\* best the position of the maximum so far (both 1-based).
RECURSIVE ArgMaxScan(_, _, _)
ArgMaxScan(v, i, best) ==
    IF i > Len(v) \/ v[best].k = "nan" THEN best
    ELSE IF ~LeqScore(v[i], v[best]) THEN ArgMaxScan(v, i + 1, i)
    ELSE ArgMaxScan(v, i + 1, best)

\* An argmax that keeps the last of equal maxima.
RECURSIVE ArgMaxLastScan(_, _, _)
ArgMaxLastScan(v, i, best) ==
    IF i > Len(v) \/ v[best].k = "nan" THEN best
    ELSE IF LeqScore(v[best], v[i]) \/ v[i].k = "nan"
    THEN ArgMaxLastScan(v, i + 1, i)
    ELSE ArgMaxLastScan(v, i + 1, best)

ArgMaxLast(v) == ArgMaxLastScan(v, 2, 1) - 1

\* np.argmax(v), 0-based, of a non-empty flat vector.
ArgMax(v) == ArgMaxScan(v, 2, 1) - 1

\* str(n) of a non-negative integer.
Digit(d) ==
    CASE d = 0 -> "0" [] d = 1 -> "1" [] d = 2 -> "2" [] d = 3 -> "3"
      [] d = 4 -> "4" [] d = 5 -> "5" [] d = 6 -> "6" [] d = 7 -> "7"
      [] d = 8 -> "8" [] d = 9 -> "9"

RECURSIVE DecStr(_)
DecStr(n) == IF n < 10 THEN Digit(n) ELSE DecStr(n \div 10) \o Digit(n % 10)

\* d[k] = x on a dict kept as its items in insertion order.
RECURSIVE DictSet(_, _, _)
DictSet(d, k, x) ==
    IF d = << >> THEN << <<k, x>> >>
    ELSE IF Head(d)[1] = k THEN << <<k, x>> >> \o Tail(d)
    ELSE <<Head(d)>> \o DictSet(Tail(d), k, x)

Min(a, b) == IF a <= b THEN a ELSE b

\* {key: float(prob) for key, prob in zip(keys, probs)}: the first n pairs.
RECURSIVE DictOfZip(_, _, _)
DictOfZip(keys, probs, n) ==
    IF n = 0 THEN << >>
    ELSE DictSet(DictOfZip(keys, probs, n - 1), keys[n], probs[n])

\* range(n) as the keys json.dumps writes for it.
RangeKeys(n) == [i \in 1..n |-> DecStr(i - 1)]

----------------------------------------------------------------------------
(* Results of a stage: a value or a raised exception.                      *)

Return(x) == [ok |-> TRUE, val |-> x, err |-> << >>]
Raise(msg) == [ok |-> FALSE, val |-> PyNone, err |-> <<msg>>]
\* A bare re-raise: the exception as it came.
Reraise(prefix, r) == r

\* except Exception as e: raise Exception(prefix + str(e))
Wrap(prefix, r) == IF r.ok THEN r ELSE [r EXCEPT !.err = <<prefix>> \o @]

----------------------------------------------------------------------------
(* Task configuration (modelConfig) and the result of postprocess_output.  *)

LabelNames == {"NOT_SPAM", "SPAM"}

\* modelConfig: a JSON object, with or without `labels`, or JSON null.
ConfigNull == [k |-> "null", hasLabels |-> FALSE, labels |-> << >>]
ConfigPlain == [k |-> "dict", hasLabels |-> FALSE, labels |-> << >>]
ConfigLabels(ls) == [k |-> "dict", hasLabels |-> TRUE, labels |-> ls]

Configs ==
    {ConfigNull, ConfigPlain}
        \cup {ConfigLabels(ls) : ls \in SeqsUpTo(LabelNames, MaxLen)}

\* processed_output.  t is "none" (the function fell off its end and
\* returned None), "classification", "regression" or "raw".
NoResult ==
    [t |-> "none", label |-> "", confidence |-> Fin(0),
     probabilities |-> << >>, prediction |-> Fin(0), raw |-> PyNone]
ClassResult(l, c, ps) ==
    [NoResult EXCEPT !.t = "classification", !.label = l,
                     !.confidence = c, !.probabilities = ps]
RegResult(p) == [NoResult EXCEPT !.t = "regression", !.prediction = p]
RawResult(o) == [NoResult EXCEPT !.t = "raw", !.raw = o]

\* config.get('labels', [])
GetLabels(config) == IF config.hasLabels THEN config.labels ELSE << >>

\* run_model.py 116-123, probs a flat list of numbers.
ClassifyVector(probs, labels) ==
    IF probs = << >>
    THEN Raise("attempt to get an argmax of an empty sequence")
    ELSE LET label_idx == ArgMax(probs)
         IN  IF labels # << >> /\ label_idx + 1 > Len(labels)
             THEN Raise("list index out of range")
             ELSE Return(ClassResult(
                      IF labels # << >> THEN labels[label_idx + 1]
                      ELSE DecStr(label_idx),
                      probs[label_idx + 1],
                      IF labels # << >>
                      THEN DictOfZip(labels, probs,
                                     Min(Len(labels), Len(probs)))
                      ELSE DictOfZip(RangeKeys(Len(probs)), probs,
                                     Len(probs))))

\* run_model.py 115-123, probs a list of lists: np.argmax flattens it, and
\* probs[label_idx] is then a row (float() of a list) or out of range.
ClassifyBatch(rows, labels) ==
    IF Flatten(rows) = << >>
    THEN Raise("attempt to get an argmax of an empty sequence")
    ELSE LET label_idx == ArgMax(Flatten(rows))
         IN  IF labels # << >> /\ label_idx + 1 > Len(labels)
             THEN Raise("list index out of range")
             ELSE IF label_idx + 1 > Len(rows)
             THEN Raise("list index out of range")
             ELSE Raise("float() argument must be a string or a real number, not 'list'")

\* run_model.py 115-123, probs a bare number: np.argmax gives 0 and
\* probs[0] is not defined on a float.
ClassifyScalar(labels) == Raise("'float' object is not subscriptable")

\* run_model.py 112-123: the text_classification branch.
ClassifyOutput(output, config) ==
    IF config.k # "dict"
    THEN Raise("'NoneType' object has no attribute 'get'")
    ELSE LET labels == GetLabels(config)
         IN  IF output.t \notin {"list", "batch"}
             THEN Return(NoResult)
             ELSE IF PyLen(output) # Len(labels) /\ PyLen(output) = 0
             THEN Raise("list index out of range")
             ELSE LET probs == IF PyLen(output) = Len(labels) THEN output
                               ELSE PyFirst(output)
                  IN  CASE probs.t = "list" ->
                               ClassifyVector(probs.rows[1], labels)
                        [] probs.t = "batch" ->
                               ClassifyBatch(probs.rows, labels)
                        [] OTHER -> ClassifyScalar(labels)

\* run_model.py 129-133: the regression branch.
RegressOutput(output) ==
    CASE output.t = "list" ->
             IF output.rows[1] = << >> THEN Raise("list index out of range")
             ELSE Return(RegResult(output.rows[1][1]))
      [] output.t = "batch" ->
             Raise("float() argument must be a string or a real number, not 'list'")
      [] output.t = "none" ->
             Raise("float() argument must be a string or a real number, not 'NoneType'")
      [] OTHER -> Return(RegResult(output.rows[1][1]))

PostprocessPrefix == "Failed to postprocess output: "

RECURSIVE postprocess_output(_, _, _)
postprocess_output(output, model_type, config) ==
    Wrap(PostprocessPrefix,
         CASE model_type = "text_classification" ->
                  ClassifyOutput(output, config)
           [] model_type = "image_classification" ->
                  postprocess_output(output, "text_classification", config)
           [] model_type = "regression" -> RegressOutput(output)
           [] OTHER -> Return(RawResult(output)))

----------------------------------------------------------------------------
(* Request payloads and preprocessed inputs: a Python value                *)
(* [k, s, bytes, dataImage, hasText, tk].  k is "str" (content s of        *)
(* `bytes` UTF-8 bytes, dataImage: it starts with "data:image"), "dict"    *)
(* (hasText: it has a `text` field, whose value is of kind tk and is       *)
(* described by s, bytes, dataImage), "number", "list" (of numbers),       *)
(* "none" (JSON null, Python None) or "ndarray".                           *)

\* The size cap the specification states for text payloads (100 KiB).
TextLimitBytes == 100 * 1024

PyIn(k) ==
    [k |-> k, s |-> "", bytes |-> 0, dataImage |-> FALSE,
     hasText |-> FALSE, tk |-> ""]
PyStr(s, n) == [PyIn("str") EXCEPT !.s = s, !.bytes = n]
PyDataImage == [PyStr("data:image/png;base64,AAAA", 26) EXCEPT !.dataImage = TRUE]
PyTextDict(v) ==
    [v EXCEPT !.k = "dict", !.hasText = TRUE, !.tk = v.k]
PyInNone == PyIn("none")
NdArrayIn == PyIn("ndarray")

Payloads ==
    {PyStr("hi", 2),
     PyStr("exactly at the limit", TextLimitBytes),
     PyStr("one byte over the limit", TextLimitBytes + 1),
     PyDataImage,
     PyTextDict(PyStr("hi", 2)),
     PyTextDict(PyStr("one byte over the limit", TextLimitBytes + 1)),
     PyTextDict(PyIn("number")),
     PyIn("dict"),
     PyIn("number"),
     PyIn("list"),
     PyInNone}

\* input_data['text']
TextOf(d) == [d EXCEPT !.k = d.tk, !.hasText = FALSE, !.tk = ""]

\* A library call that is not made.
NoCall == Raise("not called")

\* What a failing library call can say: str(e) may be empty.
Causes == {"", "boom"}
Failures == {Raise(c) : c \in Causes}

Cv2Missing == Raise("No module named 'cv2'")

PreprocessPrefix == "Failed to preprocess input: "

\* The library outcomes preprocess_input can meet: `import cv2`, then the
\* decode and resize of a data URI.
PreprocessOutcomes(input_data, model_type) ==
    IF model_type # "image_classification" THEN {NoCall}
    ELSE IF input_data.k = "str" /\ input_data.dataImage
    THEN {Return(NdArrayIn), Cv2Missing} \cup Failures
    ELSE {Return(NdArrayIn), Cv2Missing}

\* run_model.py 38-76.  lib is the outcome of the library calls.
preprocess_input(input_data, model_type, config, lib) ==
    Wrap(PreprocessPrefix,
         CASE model_type = "text_classification" ->
                  IF input_data.k = "str" THEN Return(input_data)
                  ELSE IF input_data.k = "dict" /\ input_data.hasText
                  THEN Return(TextOf(input_data))
                  ELSE Return(PyInNone)
           [] model_type = "image_classification" ->
                  IF ~lib.ok /\ lib.err = Cv2Missing.err THEN lib
                  ELSE IF input_data.k = "str" /\ input_data.dataImage
                  THEN IF ~lib.ok THEN lib
                       ELSE IF config.k # "dict"
                       THEN Raise("'NoneType' object has no attribute 'get'")
                       ELSE lib
                  ELSE Raise("Invalid image data format")
           [] model_type = "regression" ->
                  IF input_data.k \in {"number", "list", "none"}
                  THEN Return(NdArrayIn)
                  ELSE IF input_data.k = "str"
                  THEN Raise("could not convert string to float")
                  ELSE Raise("float() argument must be a string or a real number, not 'dict'")
           [] OTHER -> Return(input_data))

----------------------------------------------------------------------------
(* Model files and handles.                                                *)

Upper ==
    <<"A", "B", "C", "D", "E", "F", "G", "H", "I", "J", "K", "L", "M",
      "N", "O", "P", "Q", "R", "S", "T", "U", "V", "W", "X", "Y", "Z">>
Lower ==
    <<"a", "b", "c", "d", "e", "f", "g", "h", "i", "j", "k", "l", "m",
      "n", "o", "p", "q", "r", "s", "t", "u", "v", "w", "x", "y", "z">>

LowerChar(c) ==
    IF \E i \in DOMAIN Upper : Upper[i] = c
    THEN Lower[CHOOSE i \in DOMAIN Upper : Upper[i] = c]
    ELSE c

\* The suffix compared as it is written.
KeepCase(cs) == cs

\* str.lower() on a sequence of characters.
LowerStr(cs) == [i \in DOMAIN cs |-> LowerChar(cs[i])]

\* str.rfind, 1-based, 0 when c does not occur.
RECURSIVE LastIndexOf(_, _)
LastIndexOf(cs, c) ==
    IF cs = << >> THEN 0
    ELSE IF cs[Len(cs)] = c THEN Len(cs)
    ELSE LastIndexOf(SubSeq(cs, 1, Len(cs) - 1), c)

\* Path(p).name and Path(p).suffix: the last component, and its part from
\* the last dot on when that dot is neither its first nor its last character.
PathName(p) == SubSeq(p, LastIndexOf(p, "/") + 1, Len(p))
PathSuffix(p) ==
    LET name == PathName(p)
        i == LastIndexOf(name, ".")
    IN  IF 1 < i /\ i < Len(name) THEN SubSeq(name, i, Len(name)) ELSE << >>

\* The characters of a path as one string.
RECURSIVE Join(_)
Join(cs) == IF cs = << >> THEN "" ELSE Head(cs) \o Join(Tail(cs))

ModelPaths ==
    {<<"m", ".", "p", "t">>,
     <<"m", ".", "P", "T">>,
     <<"m", ".", "p", "t", "h">>,
     <<"m", ".", "h", "5">>,
     <<"m", ".", "k", "e", "r", "a", "s">>,
     <<"m", ".", "p", "k", "l">>,
     <<"m", ".", "P", "k", "l">>,
     <<"m", ".", "p", "i", "c", "k", "l", "e">>,
     <<"m", ".", "o", "n", "n", "x">>,
     <<"m", ".", "t", "x", "t">>,
     <<"m">>,
     <<".", "p", "k", "l">>,
     <<"d", ".", "p", "t", "/", "m">>}

\* A loaded object: what isinstance and hasattr say of it, and the mode of
\* a torch module.
Handle(tor, ker, pre, rn) ==
    [torch |-> tor, keras |-> ker, predict |-> pre, run |-> rn,
     eval |-> tor, training |-> tor]
TorchNet == Handle(TRUE, FALSE, FALSE, FALSE)
TorchDuck == Handle(TRUE, FALSE, TRUE, TRUE)
KerasNet == Handle(FALSE, TRUE, TRUE, FALSE)
KerasDuck == Handle(FALSE, TRUE, TRUE, TRUE)
Classical == Handle(FALSE, FALSE, TRUE, FALSE)
ClassicalDuck == Handle(FALSE, FALSE, TRUE, TRUE)
OnnxSession == Handle(FALSE, FALSE, FALSE, TRUE)
PlainObject == Handle(FALSE, FALSE, FALSE, FALSE)

Handles ==
    {TorchNet, TorchDuck, KerasNet, KerasDuck, Classical, ClassicalDuck,
     OnnxSession, PlainObject}

\* run_model.py 14-33: the deserializer the extension selects.
LoaderFor(model_path) ==
    LET ext == LowerStr(PathSuffix(model_path))
    IN  CASE ext = <<".", "p", "t">> \/ ext = <<".", "p", "t", "h">> ->
                 "torch.load"
          [] ext = <<".", "h", "5">>
                 \/ ext = <<".", "k", "e", "r", "a", "s">> ->
                 "tf.keras.models.load_model"
          [] ext = <<".", "p", "k", "l">>
                 \/ ext = <<".", "p", "i", "c", "k", "l", "e">> ->
                 "pickle.load"
          [] ext = <<".", "o", "n", "n", "x">> -> "ort.InferenceSession"
          [] OTHER -> "none"

\* What each deserializer can do: raise, or return an object.  The two
\* pickle-based ones return whatever was pickled.
LoadOutcomes(loader) ==
    CASE loader = "none" -> {NoCall}
      [] loader = "tf.keras.models.load_model" ->
             {Return(KerasNet), Return(KerasDuck)} \cup Failures
      [] loader = "ort.InferenceSession" ->
             {Return(OnnxSession)} \cup Failures
      [] OTHER -> {Return(h) : h \in Handles} \cup Failures

LoadPrefix == "Failed to load model: "

\* run_model.py 11-36.  lib is the outcome of the deserializer.
load_model(model_path, model_type, lib) ==
    Wrap(LoadPrefix,
         CASE LoaderFor(model_path) = "torch.load" ->
                  IF ~lib.ok THEN lib
                  ELSE IF ~lib.val.eval
                  THEN Raise("object has no attribute 'eval'")
                  ELSE Return([lib.val EXCEPT !.training = FALSE])
           [] LoaderFor(model_path) = "none" ->
                  Raise("Unsupported model format: "
                            \o Join(LowerStr(PathSuffix(model_path))))
           [] OTHER -> lib)

----------------------------------------------------------------------------
(* Inference.                                                              *)

\* An ndarray or tensor before .tolist().
AsArray(o) ==
    [o EXCEPT !.t = CASE o.t = "list" -> "nd_list"
                      [] o.t = "batch" -> "nd_batch"
                      [] OTHER -> "nd_number"]
ArrayOutputs == {AsArray(o) : o \in ListOutputs}

\* ndarray.tolist()
ToList(a) ==
    [a EXCEPT !.t = CASE a.t = "nd_list" -> "list"
                      [] a.t = "nd_batch" -> "batch"
                      [] OTHER -> "number"]

IsArray(o) == o.t \in {"nd_list", "nd_batch", "nd_number"}

\* The same chain with the hasattr(model, 'run') test before the
\* hasattr(model, 'predict') test.
DispatchRunFirst(m) ==
    CASE m.torch -> "forward"
      [] m.keras -> "keras.predict"
      [] m.run -> "run"
      [] m.predict -> "predict"
      [] OTHER -> "none"

\* run_model.py 81-102: the invocation the handle's type and attributes
\* select.
DispatchBranch(model) ==
    CASE model.torch -> "forward"
      [] model.keras -> "keras.predict"
      [] model.predict -> "predict"
      [] model.run -> "run"
      [] OTHER -> "none"

\* torch.tensor(x) is defined on numbers and arrays of numbers.
TensorConvertible(x) == x.k \in {"number", "list", "ndarray"}

\* What the call into the model can do: raise, or return an array (any
\* object, for a duck-typed predict).
InferenceOutcomes(model, x) ==
    CASE DispatchBranch(model) = "none" -> {NoCall}
      [] DispatchBranch(model) = "forward" ->
             IF TensorConvertible(x)
             THEN {Return(a) : a \in ArrayOutputs} \cup Failures
             ELSE {NoCall}
      [] DispatchBranch(model) = "predict" ->
             {Return(a) : a \in ArrayOutputs \cup AnyOutputs} \cup Failures
      [] OTHER -> {Return(a) : a \in ArrayOutputs} \cup Failures

InferencePrefix == "Inference failed: "

\* run_model.py 78-105.  lib is the outcome of the call into the model.
run_inference(model, preprocessed_input, model_type, lib) ==
    Wrap(InferencePrefix,
         CASE DispatchBranch(model) = "forward" ->
                  IF ~TensorConvertible(preprocessed_input)
                  THEN Raise("Could not infer dtype")
                  ELSE IF lib.ok THEN Return(ToList(lib.val)) ELSE lib
           [] DispatchBranch(model) = "keras.predict" ->
                  IF lib.ok THEN Return(ToList(lib.val)) ELSE lib
           [] DispatchBranch(model) = "predict" ->
                  IF lib.ok /\ IsArray(lib.val)
                  THEN Return(ToList(lib.val))
                  ELSE lib
           [] DispatchBranch(model) = "run" ->
                  IF lib.ok THEN Return(ToList(lib.val)) ELSE lib
           [] OTHER -> Raise("Unsupported model type"))

----------------------------------------------------------------------------
(* The command line.  argv is [n, model_path, doc]: n = len(sys.argv),     *)
(* model_path = sys.argv[1], doc = what json.loads makes of sys.argv[2]:   *)
(* k is "malformed" (json.loads raises), "array" (valid JSON, not an       *)
(* object) or "object", with the keys it has and their values.             *)

ModelTypes ==
    {"text_classification", "image_classification", "regression", "other"}

JsonObject(keys, input, model_type, config) ==
    [k |-> "object", keys |-> keys, input |-> input,
     modelType |-> model_type, modelConfig |-> config]

AllKeys == {"input", "modelType", "modelConfig"}

DefaultPath == <<"m", ".", "p", "k", "l">>
DefaultInput == PyStr("hi", 2)
DefaultConfig == ConfigLabels(<<"NOT_SPAM", "SPAM">>)
DefaultDoc ==
    JsonObject(AllKeys, DefaultInput, "text_classification", DefaultConfig)

Request(path, input, model_type, config) ==
    [n |-> 3, model_path |-> path,
     doc |-> JsonObject(AllKeys, input, model_type, config)]

\* Well-formed requests: every model file with every model type (the rest of
\* the request at its default), and every payload with every configuration
\* and every model type (on the default model file).
WellFormedArgv ==
    {Request(p, DefaultInput, mt, DefaultConfig) :
         p \in ModelPaths, mt \in ModelTypes}
        \cup {Request(DefaultPath, i, mt, c) :
                  i \in Payloads, c \in Configs, mt \in ModelTypes}

\* Wrong argument counts, malformed JSON, JSON that is no object, and
\* objects that lack a key.
IllFormedArgv ==
    {[n |-> n, model_path |-> DefaultPath, doc |-> DefaultDoc] :
         n \in {1, 2, 4}}
        \cup {[n |-> 3, model_path |-> DefaultPath,
               doc |-> [DefaultDoc EXCEPT !.k = kind]] :
                  kind \in {"malformed", "array"}}
        \cup {[n |-> 3, model_path |-> DefaultPath,
               doc |-> [DefaultDoc EXCEPT !.keys = AllKeys \ {key}]] :
                  key \in AllKeys}

Argvs == WellFormedArgv \cup IllFormedArgv

\* run_model.py 144-153.
parse_args(a) ==
    IF a.n # 3
    THEN Raise("Expected model_path and input_json arguments")
    ELSE IF a.doc.k = "malformed"
    THEN Raise("Expecting value: line 1 column 1 (char 0)")
    ELSE IF a.doc.k # "object"
    THEN Raise("list indices must be integers or slices, not str")
    ELSE IF "input" \notin a.doc.keys THEN Raise("'input'")
    ELSE IF "modelType" \notin a.doc.keys THEN Raise("'modelType'")
    ELSE IF "modelConfig" \notin a.doc.keys THEN Raise("'modelConfig'")
    ELSE Return(a.doc)

\* json.dumps(result) raises on a value that is no JSON type: of what the
\* stages build, only a numpy scalar passed through as raw output.
JsonSerializable(result) == ~(result.t = "raw" /\ result.raw.t = "npnumber")

\* str(e): the parts of a message as one string.
RECURSIVE Message(_)
Message(parts) ==
    IF parts = << >> THEN "" ELSE Head(parts) \o Message(Tail(parts))

SuccessEnvelope(output) ==
    [success |-> TRUE, output |-> output, error |-> ""]
ErrorEnvelope(e) ==
    [success |-> FALSE, output |-> NoResult, error |-> Message(e)]

----------------------------------------------------------------------------
(* One invocation of main.                                                 *)

VARIABLES
    argv,               \* sys.argv
    pc,                 \* where main is
    input_data,         \* main's locals
    model_type,
    model_config,
    model,
    preprocessed_input,
    raw_output,
    processed_output,
    exc,                \* the exception being handled: its message parts
    stdout,             \* the envelopes printed
    exitCode,           \* -1 while running
    calls,              \* the calls made into libraries and the model
    started,            \* the stages entered, in order
    completed,          \* the stages that returned, in order
    raised,             \* the messages of the exceptions library calls raised
    \* import_check.py
    ic_env,             \* what importing each module does
    ic_i,               \* the package the loop is at (1-based)
    missing_packages,
    ic_report,          \* the [PASS] and [FAIL] lines printed
    ic_exit             \* -1 while running

mainvars ==
    <<argv, pc, input_data, model_type, model_config, model,
      preprocessed_input, raw_output, processed_output, exc, stdout,
      exitCode, calls, started, completed, raised>>

icvars == <<ic_env, ic_i, missing_packages, ic_report, ic_exit>>

vars == <<mainvars, icvars>>

Stages == <<"args", "load", "preprocess", "infer", "postprocess">>

NoArg == PyIn("")
Call(op, arg) == [op |-> op, arg |-> arg]

InitLocals ==
    /\ pc = "args"
    /\ input_data = PyInNone
    /\ model_type = ""
    /\ model_config = ConfigNull
    /\ model = PlainObject
    /\ preprocessed_input = PyInNone
    /\ raw_output = PyNone
    /\ processed_output = NoResult
    /\ exc = << >>
    /\ stdout = << >>
    /\ exitCode = -1
    /\ calls = << >>
    /\ started = << >>
    /\ completed = << >>
    /\ raised = << >>

----------------------------------------------------------------------------
(* import_check.py                                                         *)

\* import_check.py 12-19
required_packages ==
    <<"numpy", "torch", "tensorflow", "opencv-python", "onnxruntime",
      "scikit-learn">>

\* import_check.py 25-27: package.replace('-', '_'), then cv2 for opencv.
ModuleName(package) ==
    CASE package = "opencv-python" -> "cv2"
      [] package = "scikit-learn" -> "scikit_learn"
      [] OTHER -> package

\* import_check.py 30-34: the module the import statement names.
ImportedModule(package) ==
    IF ModuleName(package) = "scikit_learn" THEN "sklearn"
    ELSE ModuleName(package)

Modules ==
    {"numpy", "torch", "tensorflow", "cv2", "onnxruntime", "sklearn",
     "sklearn.base"}

\* An import succeeds, raises ImportError, or raises something else (a
\* shared library that fails to load, say).
ImportOutcomes == {"ok", "ImportError", "OSError"}

Environments == [Modules -> ImportOutcomes]
AllInstalled == [m \in Modules |-> "ok"]

ReportLine(kind, package) == [kind |-> kind, package |-> package]

InitCheck(env) ==
    /\ ic_env = env
    /\ ic_i = 1
    /\ missing_packages = << >>
    /\ ic_report = << >>
    /\ ic_exit = -1

\* import_check.py 23-51: one turn of the loop.  r is what the turn does:
\* "pass", "fail", or "skip" when it prints nothing and records nothing.
check_package(package, env) ==
    CASE env[ImportedModule(package)] = "ok" -> "pass"
      [] env[ImportedModule(package)] = "ImportError" ->
             IF ModuleName(package) = "scikit_learn"
             THEN IF env["sklearn.base"] = "ok" THEN "pass" ELSE "fail"
             ELSE "skip"
      [] OTHER -> "fail"

CheckPackage ==
    /\ ic_exit = -1
    /\ ic_i <= Len(required_packages)
    /\ LET package == required_packages[ic_i]
           r == check_package(package, ic_env)
       IN  /\ missing_packages' =
                  IF r = "fail" THEN Append(missing_packages, package)
                  ELSE missing_packages
           /\ ic_report' =
                  CASE r = "pass" ->
                           Append(ic_report, ReportLine("PASS", package))
                    [] r = "fail" ->
                           Append(ic_report, ReportLine("FAIL", package))
                    [] OTHER -> ic_report
    /\ ic_i' = ic_i + 1
    /\ UNCHANGED <<ic_env, ic_exit>>
    /\ UNCHANGED mainvars

\* import_check.py 53-59
ExitCheck ==
    /\ ic_exit = -1
    /\ ic_i > Len(required_packages)
    /\ ic_exit' = IF missing_packages # << >> THEN 1 ELSE 0
    /\ UNCHANGED <<ic_env, ic_i, missing_packages, ic_report>>
    /\ UNCHANGED mainvars

----------------------------------------------------------------------------

Init ==
    /\ argv \in Argvs
    /\ InitLocals
    /\ InitCheck(AllInstalled)

DepInit ==
    /\ argv = [n |-> 3, model_path |-> DefaultPath, doc |-> DefaultDoc]
    /\ InitLocals
    /\ \E env \in Environments : InitCheck(env)

\* The log of raised messages after a library call with outcome lib.
Thrown(log, lib) ==
    IF lib.ok \/ lib.err = NoCall.err THEN log ELSE Append(log, lib.err[1])

\* A stage raised and main ran it again.
Retry(stage, r) ==
    /\ pc' = pc
    /\ started' = Append(started, stage)
    /\ completed' = completed
    /\ exc' = r.err

\* A stage returned: main goes on to `next`.
Proceed(stage, next) ==
    /\ pc' = next
    /\ started' = Append(started, stage)
    /\ completed' = Append(completed, stage)
    /\ exc' = exc

\* A stage raised: main goes to its except clause.
Fail(stage, r) ==
    /\ pc' = "except"
    /\ started' = Append(started, stage)
    /\ completed' = completed
    /\ exc' = r.err

\* run_model.py 144-153
ParseArgs ==
    /\ pc = "args"
    /\ LET r == parse_args(argv)
       IN  IF r.ok
           THEN /\ input_data' = r.val.input
                /\ model_type' = r.val.modelType
                /\ model_config' = r.val.modelConfig
                /\ Proceed("args", "load")
           ELSE /\ UNCHANGED <<input_data, model_type, model_config>>
                /\ Fail("args", r)
    /\ UNCHANGED <<argv, model, preprocessed_input, raw_output,
                   processed_output, stdout, exitCode, calls, raised>>
    /\ UNCHANGED icvars

\* run_model.py 156
LoadModel ==
    /\ pc = "load"
    /\ \E lib \in LoadOutcomes(LoaderFor(argv.model_path)) :
           LET r == load_model(argv.model_path, model_type, lib)
           IN  /\ calls' = IF LoaderFor(argv.model_path) = "none" THEN calls
                           ELSE Append(calls,
                                       Call(LoaderFor(argv.model_path),
                                            NoArg))
               /\ raised' = Thrown(raised, lib)
               /\ IF r.ok
                  THEN model' = r.val /\ Proceed("load", "preprocess")
                  ELSE model' = model /\ Fail("load", r)
    /\ UNCHANGED <<argv, input_data, model_type, model_config,
                   preprocessed_input, raw_output, processed_output,
                   stdout, exitCode>>
    /\ UNCHANGED icvars

\* run_model.py 159
Preprocess ==
    /\ pc = "preprocess"
    /\ \E lib \in PreprocessOutcomes(input_data, model_type) :
           LET r == preprocess_input(input_data, model_type, model_config,
                                     lib)
           IN  /\ raised' = Thrown(raised, lib)
               /\ IF r.ok
                  THEN preprocessed_input' = r.val
                           /\ Proceed("preprocess", "infer")
                  ELSE preprocessed_input' = preprocessed_input
                           /\ Fail("preprocess", r)
    /\ UNCHANGED <<argv, input_data, model_type, model_config, model,
                   raw_output, processed_output, stdout, exitCode, calls>>
    /\ UNCHANGED icvars

\* run_model.py 162
RunInference ==
    /\ pc = "infer"
    /\ \E lib \in InferenceOutcomes(model, preprocessed_input) :
           LET r == run_inference(model, preprocessed_input, model_type, lib)
           IN  /\ calls' = IF lib.ok \/ lib.err # NoCall.err
                           THEN Append(calls,
                                       Call(DispatchBranch(model),
                                            preprocessed_input))
                           ELSE calls
               /\ raised' = Thrown(raised, lib)
               /\ IF r.ok
                  THEN raw_output' = r.val /\ Proceed("infer", "postprocess")
                  ELSE raw_output' = raw_output /\ Fail("infer", r)
    /\ UNCHANGED <<argv, input_data, model_type, model_config, model,
                   preprocessed_input, processed_output, stdout, exitCode>>
    /\ UNCHANGED icvars

\* run_model.py 165
Postprocess ==
    /\ pc = "postprocess"
    /\ LET r == postprocess_output(raw_output, model_type, model_config)
       IN  IF r.ok
           THEN processed_output' = r.val
                    /\ Proceed("postprocess", "emit")
           ELSE processed_output' = processed_output
                    /\ Fail("postprocess", r)
    /\ UNCHANGED <<argv, input_data, model_type, model_config, model,
                   preprocessed_input, raw_output, stdout, exitCode, calls,
                   raised>>
    /\ UNCHANGED icvars

\* run_model.py 168-177: build the result, serialize it, print it; main
\* returns and the interpreter exits with 0.
EmitSuccess ==
    /\ pc = "emit"
    /\ IF JsonSerializable(processed_output)
       THEN /\ stdout' = Append(stdout, SuccessEnvelope(processed_output))
            /\ exitCode' = 0
            /\ pc' = "done"
            /\ exc' = exc
       ELSE /\ stdout' = stdout
            /\ exitCode' = exitCode
            /\ pc' = "except"
            /\ exc' = <<"Object of type int64 is not JSON serializable">>
    /\ UNCHANGED <<argv, input_data, model_type, model_config, model,
                   preprocessed_input, raw_output, processed_output, calls,
                   started, completed, raised>>
    /\ UNCHANGED icvars

\* run_model.py 179-186
EmitError ==
    /\ pc = "except"
    /\ stdout' = Append(stdout, ErrorEnvelope(exc))
    /\ exitCode' = 1
    /\ pc' = "done"
    /\ UNCHANGED <<argv, input_data, model_type, model_config, model,
                   preprocessed_input, raw_output, processed_output, exc,
                   calls, started, completed, raised>>
    /\ UNCHANGED icvars

Next ==
    \/ ParseArgs
    \/ LoadModel
    \/ Preprocess
    \/ RunInference
    \/ Postprocess
    \/ EmitSuccess
    \/ EmitError

Spec == Init /\ [][Next]_vars

DepNext ==
    \/ CheckPackage
    \/ ExitCheck

DepSpec == DepInit /\ [][DepNext]_vars

----------------------------------------------------------------------------
(* Vocabulary of the properties below.                                     *)

Started(stage) == \E i \in DOMAIN started : started[i] = stage
Completed(stage) == \E i \in DOMAIN completed : completed[i] = stage

ModelOps == {"forward", "keras.predict", "predict", "run"}
IsModelCall(c) == c.op \in ModelOps
\* The calls made into the loaded model, and into the deserializers.
ModelCalls == SelectSeq(calls, IsModelCall)
IsLoaderCall(c) == c.op \notin ModelOps
LoaderCalls == SelectSeq(calls, IsLoaderCall)

IsClassification ==
    model_type \in {"text_classification", "image_classification"}

\* The position of the maximum of a non-empty vector as numpy defines it:
\* the first NaN, or without a NaN the first element no other exceeds.
IsMaxAt(v, i) ==
    \/ /\ v[i].k = "nan"
       /\ \A j \in 1..(i - 1) : v[j].k # "nan"
    \/ /\ \A j \in DOMAIN v : v[j].k # "nan"
       /\ \A j \in DOMAIN v : LeqScore(v[j], v[i])
       /\ \A j \in 1..(i - 1) : ~LeqScore(v[i], v[j])

MaxAt(v) == CHOOSE i \in DOMAIN v : IsMaxAt(v, i)

Distinct(ls) == \A i, j \in DOMAIN ls : ls[i] = ls[j] => i = j

----------------------------------------------------------------------------
(* C1.  Original statement: every invocation of main prints exactly one    *)
(* envelope; it has success = true (with an output) and the exit code is 0 *)
(* if and only if argument parsing, load, preprocess, inference and        *)
(* postprocess all returned; otherwise it has success = false, a non-empty *)
(* error string, and the exit code is 1.                                   *)
C1_SuccessIffFiveStages ==
    /\ Len(stdout) <= 1
    /\ pc = "done" =>
           /\ Len(stdout) = 1
           /\ IF completed = Stages
              THEN stdout[1].success /\ exitCode = 0
              ELSE ~stdout[1].success /\ stdout[1].error # ""
                       /\ exitCode = 1

(* C1 as amended: the same, with the serialization of the success envelope *)
(* (json.dumps of the result) counted among the steps that must not raise. *)
C1_SuccessIffStagesAndSerialization ==
    /\ Len(stdout) <= 1
    /\ pc = "done" =>
           /\ Len(stdout) = 1
           /\ IF completed = Stages /\ JsonSerializable(processed_output)
              THEN /\ stdout[1].success
                   /\ stdout[1].output = processed_output
                   /\ exitCode = 0
              ELSE /\ ~stdout[1].success
                   /\ stdout[1].error # ""
                   /\ exitCode = 1

\* All five stages returned, the result could not be serialized, and the
\* one envelope printed is the failure envelope.
C1_Witness ==
    /\ pc = "done"
    /\ completed = Stages
    /\ ~JsonSerializable(processed_output)
    /\ Len(stdout) = 1
    /\ ~stdout[1].success
    /\ exitCode = 1

(* C2.  Whenever main prints a success envelope for text_classification or *)
(* image_classification, its output is a classification result (label,     *)
(* confidence, probabilities), never null.                                 *)
C2_ClassificationOutputNeverNull ==
    \A i \in DOMAIN stdout :
        stdout[i].success /\ IsClassification =>
            stdout[i].output.t = "classification"

(* C3.  run_inference invokes the handle through exactly one branch, in    *)
(* the priority torch module > keras model > predict > run: a handle with  *)
(* both predict and run goes through predict, never run; a handle that     *)
(* matches no branch fails with "Unsupported model type" and yields no     *)
(* output.                                                                 *)
C3_DispatchPriority ==
    Started("infer") =>
        /\ Len(ModelCalls) <= 1
        /\ Completed("infer") => Len(ModelCalls) = 1
        /\ \A i \in DOMAIN ModelCalls :
               /\ ModelCalls[i].op = "forward" <=> model.torch
               /\ ModelCalls[i].op = "keras.predict" <=>
                      ~model.torch /\ model.keras
               /\ ModelCalls[i].op = "predict" <=>
                      ~model.torch /\ ~model.keras /\ model.predict
               /\ ModelCalls[i].op = "run" <=>
                      ~model.torch /\ ~model.keras /\ ~model.predict
                          /\ model.run
        /\ ~model.torch /\ ~model.keras /\ ~model.predict /\ ~model.run =>
               /\ ModelCalls = << >>
               /\ ~Completed("infer")
               /\ raw_output = PyNone
               /\ exc = <<"Inference failed: ", "Unsupported model type">>

\* A handle with both predict and run was invoked, through predict.
C3_Witness ==
    /\ Completed("infer")
    /\ ~model.torch /\ ~model.keras /\ model.predict /\ model.run
    /\ Len(ModelCalls) = 1
    /\ ModelCalls[1].op = "predict"

(* C4.  For text_classification, a payload that is neither a string nor an *)
(* object with a `text` field makes preprocessing fail: the run ends in a  *)
(* failure envelope and the model is never invoked.                        *)
C4_TextPayloadShapeRejected ==
    /\ model_type = "text_classification"
    /\ Started("preprocess")
    /\ ~(input_data.k = "str" \/ (input_data.k = "dict" /\ input_data.hasText))
    => /\ ~Completed("preprocess")
       /\ ModelCalls = << >>
       /\ pc = "done" => ~stdout[1].success

(* C5.  For text_classification, preprocess_input returns a text of at     *)
(* most 100 KiB unchanged, and fails before any inference on a text of     *)
(* 100 KiB + 1 byte or more.                                               *)
C5_TextSizeCap ==
    /\ model_type = "text_classification"
    /\ Started("preprocess")
    /\ input_data.k = "str"
    => IF input_data.bytes <= TextLimitBytes
       THEN Completed("preprocess") /\ preprocessed_input = input_data
       ELSE ~Completed("preprocess") /\ ModelCalls = << >>

\* What C6 says postprocess_output returns on vector v with labels ls.
C6_Expected(v, ls) ==
    ClassResult(ls[MaxAt(v)], v[MaxAt(v)],
                [i \in DOMAIN ls |-> <<ls[i], v[i]>>])

C6_Case ==
    /\ IsClassification
    /\ Started("postprocess")
    /\ model_config.k = "dict"
    /\ model_config.hasLabels
    /\ model_config.labels # << >>
    /\ raw_output.t = "list"
    /\ Len(raw_output.rows[1]) = Len(model_config.labels)

(* C6.  Original statement: for a classification task (text or image       *)
(* alike) whose labels list is as long as the raw output vector, the       *)
(* result is label = labels[argmax], confidence = output[argmax], and      *)
(* probabilities = every label mapped to the output value at its index, in *)
(* label order.                                                            *)
C6_LabelledArgmax ==
    C6_Case =>
        /\ Completed("postprocess")
        /\ processed_output =
               C6_Expected(raw_output.rows[1], model_config.labels)

(* C6 as amended: the same, for a labels list of pairwise distinct labels. *)
C6_LabelledArgmaxDistinct ==
    C6_Case /\ Distinct(model_config.labels) =>
        /\ Completed("postprocess")
        /\ processed_output =
               C6_Expected(raw_output.rows[1], model_config.labels)

\* An image classification run on a tied two-class vector with two
\* distinct labels came out with one probability per label.
C6_Witness ==
    /\ C6_Case
    /\ Distinct(model_config.labels)
    /\ model_type = "image_classification"
    /\ raw_output.rows[1] = <<Fin(80), Fin(80)>>
    /\ Completed("postprocess")
    /\ processed_output.label = model_config.labels[1]
    /\ Len(processed_output.probabilities) = 2

(* C7.  For a classification task with no labels configured (absent or an *)
(* empty list), postprocess_output succeeds on any non-empty vector of     *)
(* class scores, flat or batch-wrapped, with label = the decimal string of *)
(* the argmax index and confidence = the score at that index.              *)
C7_UnlabelledArgmax ==
    /\ IsClassification
    /\ Started("postprocess")
    /\ model_config.k = "dict"
    /\ GetLabels(model_config) = << >>
    /\ \/ raw_output.t = "list"
       \/ raw_output.t = "batch" /\ Len(raw_output.rows) = 1
    /\ raw_output.rows[1] # << >>
    => /\ Completed("postprocess")
       /\ processed_output.t = "classification"
       /\ processed_output.label = DecStr(MaxAt(raw_output.rows[1]) - 1)
       /\ processed_output.confidence =
              raw_output.rows[1][MaxAt(raw_output.rows[1])]

\* The table C8 states, written out for the model files of ModelPaths.
C8_Table(p) ==
    CASE p \in {<<"m", ".", "p", "t">>, <<"m", ".", "P", "T">>,
                <<"m", ".", "p", "t", "h">>} -> "torch.load"
      [] p \in {<<"m", ".", "h", "5">>,
                <<"m", ".", "k", "e", "r", "a", "s">>} ->
             "tf.keras.models.load_model"
      [] p \in {<<"m", ".", "p", "k", "l">>, <<"m", ".", "P", "k", "l">>,
                <<"m", ".", "p", "i", "c", "k", "l", "e">>} -> "pickle.load"
      [] p = <<"m", ".", "o", "n", "n", "x">> -> "ort.InferenceSession"
      [] OTHER -> "none"

\* The failure message of an unsupported model file.
C8_Unsupported(p) ==
    IF p = <<"m", ".", "t", "x", "t">>
    THEN "Failed to load model: Unsupported model format: .txt"
    ELSE "Failed to load model: Unsupported model format: "

C9_Importable(package) ==
    \/ ic_env[ImportedModule(package)] = "ok"
    \/ /\ package = "scikit-learn"
       /\ ic_env["sklearn"] = "ImportError"
       /\ ic_env["sklearn.base"] = "ok"

C9_Lines(kind, package) ==
    {i \in DOMAIN ic_report :
         ic_report[i].kind = kind /\ ic_report[i].package = package}

(* C9.  The dependency check exits with 0 only if every required package   *)
(* could be imported; a package whose import raises ImportError is         *)
(* reported as failed and the exit code is 1; every package is reported    *)
(* exactly once, as pass or as fail.                                       *)
C9_ExitZeroOnlyIfAllImportable ==
    ic_exit # -1 =>
        \A i \in DOMAIN required_packages :
            LET package == required_packages[i]
            IN  /\ ic_exit = 0 => C9_Importable(package)
                /\ ic_env[ImportedModule(package)] = "ImportError"
                       /\ ~C9_Importable(package) =>
                       /\ C9_Lines("FAIL", package) # {}
                       /\ ic_exit = 1
                /\ Cardinality(C9_Lines("PASS", package)
                                   \cup C9_Lines("FAIL", package)) = 1

(* C10.  postprocess_output never returns, and no success envelope ever    *)
(* carries, a classification result whose confidence or one of whose       *)
(* probabilities is NaN or infinite.                                       *)
C10_FiniteScores ==
    LET Finite(r) ==
            r.t = "classification" =>
                /\ IsFinite(r.confidence)
                /\ \A i \in DOMAIN r.probabilities :
                       IsFinite(r.probabilities[i][2])
    IN  /\ Completed("postprocess") => Finite(processed_output)
        /\ \A i \in DOMAIN stdout :
               stdout[i].success => Finite(stdout[i].output)

(* C11.  In every run of main the stages execute at most once each and in  *)
(* the order load, preprocess, infer, postprocess, envelope; a stage       *)
(* starts only if every earlier stage returned; once a stage raises, no    *)
(* later stage starts and none is run again, and the failure envelope      *)
(* carries the error of that first failing stage: the stage's prefix       *)
(* followed by the original message.                                       *)
C11_StagePrefix(stage) ==
    CASE stage = "load" -> LoadPrefix
      [] stage = "preprocess" -> PreprocessPrefix
      [] stage = "infer" -> InferencePrefix
      [] stage = "postprocess" -> PostprocessPrefix
      [] OTHER -> ""

C11_FailFastInOrder ==
    LET failed == Len(started) > Len(completed)
        stage == started[Len(started)]
    IN  \* each stage at most once, in order, and only after its predecessors
        /\ Len(started) <= Len(Stages)
        /\ started = SubSeq(Stages, 1, Len(started))
        /\ completed = SubSeq(started, 1, Len(completed))
        /\ Len(started) <= Len(completed) + 1
        /\ Len(LoaderCalls) <= 1
        /\ Len(ModelCalls) <= 1
        /\ Len(raised) <= 1
        /\ \A i \in DOMAIN Stages :
               pc = Stages[i] =>
                   /\ started = SubSeq(Stages, 1, i - 1)
                   /\ completed = started
                   /\ stdout = << >>
        \* the envelope is built last, once
        /\ pc = "emit" => completed = Stages /\ stdout = << >>
        /\ Len(stdout) <= 1
        /\ stdout # << >> => pc = "done"
        /\ \A i \in DOMAIN stdout : stdout[i].success => completed = Stages
        \* the stage that raised is the last one started
        /\ failed => pc \in {"except", "done"}
        /\ pc = "except" => stdout = << >> /\ exc # << >>
        /\ pc \in {"except", "done"} /\ ~failed => completed = Stages
        /\ failed /\ stage # "args" =>
               /\ Len(exc) >= 2
               /\ exc[1] = C11_StagePrefix(stage)
        /\ raised # << >> =>
               /\ failed
               /\ stage \in {"load", "preprocess", "infer"}
               /\ exc = <<C11_StagePrefix(stage), raised[1]>>
        /\ failed /\ stage = "load" /\ LoaderCalls = << >> =>
               exc = <<LoadPrefix, "Unsupported model format: "
                           \o Join(LowerStr(PathSuffix(argv.model_path)))>>
        /\ failed /\ stage = "infer" /\ DispatchBranch(model) = "none" =>
               exc = <<InferencePrefix, "Unsupported model type">>
        /\ failed /\ stage = "args" /\ argv.n # 3 =>
               exc = <<"Expected model_path and input_json arguments">>
        \* the failure envelope is that error, printed
        /\ pc = "done" /\ failed =>
               /\ Len(stdout) = 1
               /\ stdout[1] = ErrorEnvelope(exc)
               /\ stdout[1].error = Message(exc)
               /\ exitCode = 1

\* The model raised "boom" in the third stage: postprocess never started,
\* the model was called once, and the envelope carries the wrapped message.
C11_Witness ==
    /\ pc = "done"
    /\ started = <<"args", "load", "preprocess", "infer">>
    /\ completed = <<"args", "load", "preprocess">>
    /\ raised = <<"boom">>
    /\ Len(ModelCalls) = 1
    /\ stdout = <<ErrorEnvelope(<<InferencePrefix, "boom">>)>>
    /\ stdout[1].error = "Inference failed: boom"
    /\ exitCode = 1

====
